---- MODULE Spec2Model ----
(***************************************************************************)
(* Model of TGEapp.py: the cached API client (buscar_deputados,            *)
(* obter_despesas_deputado, obter_proposicoes_deputado,                    *)
(* obter_detalhes_deputado), the aggregation calcular_total_despesas and   *)
(* the orchestrator comparar_deputados_ui.                                 *)
(*                                                                         *)
(* Amounts are integers (currency units); Python floats are modelled as    *)
(* exact numbers, a percentage as the fraction num/den.                    *)
(***************************************************************************)
EXTENDS Integers, Sequences, FiniteSets, TLC

VARIABLES now, cache, ui, agreg, analise

vars == <<now, cache, ui, agreg, analise>>

\* ------------------------------------------------------------------ bounds

\* Longest amount string of an expense record.
MaxStrLen == 2
\* Longest list of expense records handed to calcular_total_despesas.
MaxRegistros == 2
\* Totals handed to the textual analysis range over -MaxDivida..MaxTotal.
MaxTotal == 10
MaxDivida == 2

\* ------------------------------------------------------- values and records

\* Python's None, the value every client operation but obter_detalhes_deputado
\* returns on a RequestException.
None == [tag |-> "None", dados |-> <<>>]

\* response.json().get("dados", []) : a list of records.
Lista(xs) == [tag |-> "list", dados |-> xs]

\* The valorDocumento entry of one expense record as it arrives in the JSON:
\* the key absent, null, a number, or a string.
Ausente == [k |-> "absent", n |-> 0, s |-> <<>>]
Nulo == [k |-> "null", n |-> 0, s |-> <<>>]
Num(n) == [k |-> "num", n |-> n, s |-> <<>>]
Str(s) == [k |-> "str", n |-> 0, s |-> s]

Chars == {"7", "-", "x"}

DigitVal(c) == CASE c = "0" -> 0 [] c = "1" -> 1 [] c = "2" -> 2 [] c = "3" -> 3
                 [] c = "4" -> 4 [] c = "5" -> 5 [] c = "6" -> 6 [] c = "7" -> 7
                 [] c = "8" -> 8 [] c = "9" -> 9 [] OTHER -> -1

IsDigit(c) == DigitVal(c) >= 0

RECURSIVE DigitsValue(_)
DigitsValue(s) ==
    IF s = <<>> THEN 0
    ELSE 10 * DigitsValue(SubSeq(s, 1, Len(s) - 1)) + DigitVal(s[Len(s)])

AllDigits(s) == Len(s) > 0 /\ \A i \in 1..Len(s) : IsDigit(s[i])

\* NaN is modelled by the record's nan flag.
NaN == [nan |-> TRUE, v |-> 0]
Valor(v) == [nan |-> FALSE, v |-> v]

\* pd.to_numeric(..., errors='coerce') on one cell: a number stays, a string
\* is parsed (an optional sign and digits), anything else becomes NaN.  A cell
\* of a record without the key is NaN already in the DataFrame.
to_numeric(a) ==
    CASE a.k = "num" -> Valor(a.n)
      [] a.k = "str" ->
            IF AllDigits(a.s) THEN Valor(DigitsValue(a.s))
            ELSE IF Len(a.s) > 1 /\ a.s[1] = "-" /\ AllDigits(Tail(a.s))
                 THEN Valor(0 - DigitsValue(Tail(a.s)))
                 ELSE NaN
      [] OTHER -> NaN

fillna(x, d) == IF x.nan THEN d ELSE x.v

RECURSIVE SeqSum(_)
SeqSum(s) == IF s = <<>> THEN 0 ELSE s[1] + SeqSum(Tail(s))

\* pd.DataFrame(despesas) has the column 'valorDocumento' iff some record
\* carries the key; df['valorDocumento'] raises KeyError otherwise.
TemColuna(dados) == \E i \in 1..Len(dados) : dados[i].valorDocumento.k # "absent"

SemDados == [raised |-> "", total |-> 0, df |-> <<>>]

\* Variant: only None, not the empty list, is answered without a DataFrame.
calcular_total_despesas_so_none(despesas) ==
    IF despesas.tag = "None"
    THEN SemDados
    ELSE IF ~TemColuna(despesas.dados)
         THEN [raised |-> "KeyError", total |-> 0, df |-> <<>>]
         ELSE LET col == [i \in 1..Len(despesas.dados) |->
                             fillna(to_numeric(despesas.dados[i].valorDocumento), 0)]
              IN  [raised |-> "", total |-> SeqSum(col),
                   df |-> [i \in 1..Len(col) |->
                             [orig |-> despesas.dados[i], valorDocumento |-> col[i]]]]

\* calcular_total_despesas: (total, df), or the exception it raises.
calcular_total_despesas(despesas) ==
    IF despesas.tag = "None" \/ despesas.dados = <<>>
    THEN SemDados
    ELSE IF ~TemColuna(despesas.dados)
         THEN [raised |-> "KeyError", total |-> 0, df |-> <<>>]
         ELSE LET col == [i \in 1..Len(despesas.dados) |->
                             fillna(to_numeric(despesas.dados[i].valorDocumento), 0)]
              IN  [raised |-> "", total |-> SeqSum(col),
                   df |-> [i \in 1..Len(col) |->
                             [orig |-> despesas.dados[i], valorDocumento |-> col[i]]]]

\* ------------------------------------------------------- textual analysis

Abs(x) == IF x < 0 THEN 0 - x ELSE x

\* f"{percentual:.1f}": the fraction num/den (den > 0, num >= 0) in tenths of
\* a percent, rounded to nearest, ties to even.
Fmt1f(num, den) ==
    LET q == (10 * num) \div den
        r == (10 * num) % den
    IN  IF 2 * r > den \/ (2 * r = den /\ q % 2 = 1) THEN q + 1 ELSE q

SemPercentual == [tipo |-> "unset", num |-> 0, den |-> 1]

\* (maior - menor) / menor * 100 if menor > 0 else "N/A"
\* Variant: the division is made whatever the smaller total.
Percentual_sem_guarda(maior, menor) ==
    [tipo |-> "num", num |-> (maior - menor) * 100, den |-> menor]

\* Variant: the difference is divided by the larger total.
Percentual_pelo_maior(maior, menor) ==
    IF menor > 0 THEN [tipo |-> "num", num |-> (maior - menor) * 100, den |-> maior]
    ELSE [tipo |-> "N/A", num |-> 0, den |-> 1]

Percentual(maior, menor) ==
    IF menor > 0 THEN [tipo |-> "num", num |-> (maior - menor) * 100, den |-> menor]
    ELSE [tipo |-> "N/A", num |-> 0, den |-> 1]

Ramo(vencedor, maior, menor, dif) ==
    LET p == Percentual(maior, menor)
    IN  [diferenca |-> dif, vencedor |-> vencedor, percentual |-> p,
         msg_pct |-> menor > 0,
         pct_decimos |-> IF menor > 0 THEN Fmt1f(p.num, p.den) ELSE 0]

\* Variant: the first comparison is >=, so equal totals have a winner.
AnaliseTextual_ge(total1, total2) ==
    LET diferenca == Abs(total1 - total2)
    IN  IF total1 >= total2 THEN Ramo(1, total1, total2, diferenca)
        ELSE Ramo(2, total2, total1, diferenca)

\* "Analise Textual de Despesas": diferenca, the winner (0: the tie message),
\* percentual and what the message shows of it.
AnaliseTextual(total1, total2) ==
    LET diferenca == Abs(total1 - total2)
    IN  IF total1 > total2 THEN Ramo(1, total1, total2, diferenca)
        ELSE IF total2 > total1 THEN Ramo(2, total2, total1, diferenca)
        ELSE [diferenca |-> diferenca, vencedor |-> 0, percentual |-> SemPercentual,
              msg_pct |-> FALSE, pct_decimos |-> 0]

\* ------------------------------------------------------------ upstream API

\* ano_atual = datetime.now().year
AnoAtual == 2026
\* anos_disponiveis = list(range(ano_atual, ano_atual - 5, -1))
NumAnos == 5
anos_disponiveis == {AnoAtual - i : i \in 0..(NumAnos - 1)}
\* The year the user picks: the default of the selectbox (index 1).
Anos == {a \in anos_disponiveis : a = AnoAtual - 1}

\* meses_comp: None ("Todo o Ano") is written SemMes.
SemMes == 0
NumMeses == 12
\* The months the user picks here: the whole year, or January.
Meses == {SemMes, 1}

\* @st.cache_data(ttl=3600)
TTL == 3600
\* obter_despesas_deputado(..., limite=1000)
LimitePadrao == 1000
\* obter_proposicoes_deputado: "itens": 100
ItensProposicoes == 100

Dep1 == [id |-> 1, nome |-> "Ana", siglaPartido |-> "PA", siglaUf |-> "SP"]
Dep2 == [id |-> 2, nome |-> "Bia", siglaPartido |-> "PB", siglaUf |-> "RJ"]
SemDeputado == [id |-> 0, nome |-> "", siglaPartido |-> "", siglaUf |-> ""]

Nomes == {"", "ana", "bia", "zed"}

\* What the API holds: GET /deputados?nome=...
BaseDeputados(nome) ==
    CASE nome = "ana" -> <<Dep1, Dep2>>
      [] nome = "bia" -> <<Dep2>>
      [] OTHER -> <<>>

Reg(a) == [valorDocumento |-> a]

\* GET /deputados/{id}/despesas?ano=..&mes=..
BaseDespesas(id, ano, mes) ==
    CASE id = 1 /\ mes = SemMes -> <<Reg(Num(3)), Reg(Str(<<"7">>))>>
      [] id = 2 /\ mes = SemMes -> <<Reg(Num(8)), Reg(Ausente)>>
      [] id = 1 -> <<Reg(Str(<<"x">>))>>
      [] OTHER -> <<Reg(Ausente)>>

\* GET /proposicoes?idAutor=..&ano=..
BaseProposicoes(id, ano) == IF id = 1 THEN <<"PL 1", "PEC 2">> ELSE <<>>

\* GET /deputados/{id}: the keys of the "dados" object.
BaseDetalhes(id) == IF id = 1 THEN {"id", "ultimoStatus"} ELSE {"id"}

Dict(keys) == [tag |-> "dict", dados |-> keys]

\* What one HTTP GET does: "ok" (2xx with the body), "erro" (RequestException).
Respostas == {"ok", "erro"}

Min(a, b) == IF a < b THEN a ELSE b

\* "itens": the API returns one page of at most that many records.
Pagina(xs, itens) == SubSeq(xs, 1, Min(Len(xs), itens))

\* ------------------------------------------------------------------ cache

\* The arguments of one call of a cached function.
Chave(fn, nome, id, ano, mes, limite) ==
    [fn |-> fn, nome |-> nome, id |-> id, ano |-> ano, mes |-> mes, limite |-> limite]

ChaveBusca(nome) == Chave("buscar_deputados", nome, 0, 0, 0, 0)
ChaveDespesas(id, ano, mes) == Chave("obter_despesas_deputado", "", id, ano, mes, LimitePadrao)
ChaveProposicoes(id, ano) == Chave("obter_proposicoes_deputado", "", id, ano, 0, 0)
ChaveDetalhes(id) == Chave("obter_detalhes_deputado", "", id, 0, 0, 0)

\* The state one run threads through its calls: the cache, the network
\* requests issued so far, the value each call returned, and the calls that
\* found an expired entry.
Sessao(c, rede, ret, vencidas) ==
    [cache |-> c, rede |-> rede, ret |-> ret, vencidas |-> vencidas]

\* The requests of a run that ended in a RequestException: those whose call
\* returned what its except clause returns.
Falhas(s) ==
    {k \in s.rede : \/ s.ret[k].tag = "None"
                    \/ (s.ret[k].tag = "dict" /\ s.ret[k].dados = {})}

Put(f, k, v) == [x \in DOMAIN f \cup {k} |-> IF x = k THEN v ELSE f[x]]

\* An entry of st.cache_data(ttl=TTL) is served while its age is below TTL.
\* Variant: an entry never expires.
Fresco_sem_ttl(c, k, t) == k \in DOMAIN c

Fresco(c, k, t) == k \in DOMAIN c /\ t - c[k].at < TTL

\* A call of a function under @st.cache_data: a fresh entry is returned as
\* it is; otherwise the body runs (rede: whether it issued its request),
\* and whatever it returns, None included, is stored with the time.
Vencidas(s, k) == IF k \in DOMAIN s.cache THEN s.vencidas \cup {k} ELSE s.vencidas

\* Variant: a None result is returned but not stored.
Cached_sem_none(s, k, t, val, rede) ==
    IF Fresco(s.cache, k, t)
    THEN Sessao(s.cache, s.rede, Put(s.ret, k, s.cache[k].val), s.vencidas)
    ELSE Sessao(IF val.tag = "None" THEN s.cache
                ELSE Put(s.cache, k, [val |-> val, at |-> t]),
                IF rede THEN s.rede \cup {k} ELSE s.rede,
                Put(s.ret, k, val), Vencidas(s, k))

Cached(s, k, t, val, rede) ==
    IF Fresco(s.cache, k, t)
    THEN Sessao(s.cache, s.rede, Put(s.ret, k, s.cache[k].val), s.vencidas)
    ELSE Sessao(Put(s.cache, k, [val |-> val, at |-> t]),
                IF rede THEN s.rede \cup {k} ELSE s.rede,
                Put(s.ret, k, val), Vencidas(s, k))

\* ------------------------------------------------------------- API client

buscar_deputados(s, t, nome, resp) ==
    IF nome = ""
    THEN Cached(s, ChaveBusca(nome), t, Lista(<<>>), FALSE)
    ELSE Cached(s, ChaveBusca(nome), t,
                IF resp = "ok" THEN Lista(BaseDeputados(nome)) ELSE None, TRUE)

\* if mes and 1 <= mes <= 12: params["mes"] = mes
ParamMes(mes) == IF mes # SemMes /\ 1 <= mes /\ mes <= NumMeses THEN mes ELSE SemMes

obter_despesas_deputado(s, t, id, ano, mes, resp) ==
    Cached(s, ChaveDespesas(id, ano, mes), t,
           IF resp = "ok" THEN Lista(Pagina(BaseDespesas(id, ano, ParamMes(mes)), LimitePadrao))
           ELSE None, TRUE)

obter_proposicoes_deputado(s, t, id, ano, resp) ==
    Cached(s, ChaveProposicoes(id, ano), t,
           IF resp = "ok" THEN Lista(Pagina(BaseProposicoes(id, ano), ItensProposicoes))
           ELSE None, TRUE)

obter_detalhes_deputado(s, t, id, resp) ==
    Cached(s, ChaveDetalhes(id), t,
           IF resp = "ok" THEN Dict(BaseDetalhes(id)) ELSE Dict({}), TRUE)

\* ----------------------------------------------------------- orchestrator

\* f"{d['nome']} ({d['siglaPartido']}/{d['siglaUf']})", kept as its three parts.
Rotulo(d) == <<d.nome, d.siglaPartido, d.siglaUf>>
SemEscolha == <<"", "", "">>

\* {label: d for d in deputados}: a later record replaces an earlier one of
\* the same label.
Opcoes(deputados) ==
    [l \in {Rotulo(deputados[i]) : i \in 1..Len(deputados)} |->
        LET js == {i \in 1..Len(deputados) : Rotulo(deputados[i]) = l}
        IN  deputados[CHOOSE j \in js : \A i \in js : i <= j]]

\* An element the page shows: the column (0: the page), the call, the text.
Msg(col, el, texto) == <<col, el, texto>>

Truthy(v) == v.tag # "None" /\ v.dados # <<>>

\* One column of "1. Selecao de Deputados" (lines 126-137 and 139-150) up
\* to the selectbox: the options it offers (none when it is not shown).
Selecao(s, t, col, nome, resp) ==
    IF nome = ""
    THEN [s |-> s, opcoes |-> Opcoes(<<>>), msgs |-> {}]
    ELSE LET s1 == buscar_deputados(s, t, nome, resp)
             deputados == s1.ret[ChaveBusca(nome)]
             erro == IF deputados.tag = "None"
                     THEN {Msg(col, "st.error", "Erro na conexao ao buscar deputados")}
                     ELSE {}
         IN  IF Truthy(deputados)
             THEN [s |-> s1, opcoes |-> Opcoes(deputados.dados), msgs |-> {}]
             ELSE [s |-> s1, opcoes |-> Opcoes(<<>>),
                   msgs |-> erro \cup {Msg(col, "st.info", "Nenhum deputado encontrado.")}]

\* st.selectbox(options=list(opcoes.keys())): any of the options.
Escolhas(a) == IF DOMAIN a.opcoes = {} THEN {SemEscolha} ELSE DOMAIN a.opcoes

\* deputado_selecionado = opcoes.get(escolha), None when nothing was offered.
Selecionado(a, escolha) ==
    IF escolha \in DOMAIN a.opcoes THEN a.opcoes[escolha] ELSE SemDeputado

SemAnalise == [diferenca |-> 0, vencedor |-> 0, percentual |-> SemPercentual,
               msg_pct |-> FALSE, pct_decimos |-> 0]

\* What one run of the page leaves: how it ended and when, the names
\* typed, what it showed, the requests it issued and those that failed,
\* what each client call returned, and the numbers.
UI(resultado, t, msgs, s, sel1, sel2, total1, total2, np1, np2, textual) ==
    [resultado |-> resultado, quando |-> t, msgs |-> msgs,
     nome1 |-> "", nome2 |-> "",
     rede |-> s.rede, ret |-> s.ret, vencidas |-> s.vencidas, falhas |-> Falhas(s),
     sel1 |-> sel1.id, sel2 |-> sel2.id, total1 |-> total1, total2 |-> total2,
     num_proposicoes1 |-> np1, num_proposicoes2 |-> np2, textual |-> textual]

Parou(resultado, t, msgs, s, sel1, sel2) ==
    UI(resultado, t, msgs, s, sel1, sel2, 0, 0, 0, 0, SemAnalise)

\* "BLOCO A": one column of the mandate details.
BlocoA(col, detalhes) ==
    IF "ultimoStatus" \in detalhes.dados
    THEN {Msg(col, "st.metric", "Situacao"), Msg(col, "st.metric", "Gabinete")}
    ELSE {Msg(col, "st.info", "Detalhes do mandato indisponiveis.")}

\* The warning obter_proposicoes_deputado shows when its request fails.
AvisoProposicoes(col, proposicoes) ==
    IF proposicoes.tag = "None"
    THEN {Msg(col, "st.warning", "Nao foi possivel carregar as Proposicoes")}
    ELSE {}

\* The error obter_detalhes_deputado shows when its request fails; the call
\* returns {} then, which a profile never is.
ErroDetalhes(col, detalhes) ==
    IF detalhes.dados = {}
    THEN {Msg(col, "st.error", "Erro ao obter detalhes do deputado")}
    ELSE {}

NumProposicoes(proposicoes) ==
    IF proposicoes.tag # "None" THEN Len(proposicoes.dados) ELSE 0

\* "3. Busca de Dados e Processamento" onwards, for two different deputies.
Comparacao(s0, t, msgs0, sel1, sel2, ano, mes, resp) ==
    LET s1 == obter_despesas_deputado(s0, t, sel1.id, ano, mes, resp.d1)
        s2 == obter_despesas_deputado(s1, t, sel2.id, ano, mes, resp.d2)
        despesas1_raw == s2.ret[ChaveDespesas(sel1.id, ano, mes)]
        despesas2_raw == s2.ret[ChaveDespesas(sel2.id, ano, mes)]
        c1 == calcular_total_despesas(despesas1_raw)
        c2 == calcular_total_despesas(despesas2_raw)
        s3 == obter_proposicoes_deputado(s2, t, sel1.id, ano, resp.p1)
        s4 == obter_proposicoes_deputado(s3, t, sel2.id, ano, resp.p2)
        proposicoes1 == s4.ret[ChaveProposicoes(sel1.id, ano)]
        proposicoes2 == s4.ret[ChaveProposicoes(sel2.id, ano)]
        num_proposicoes1 == NumProposicoes(proposicoes1)
        num_proposicoes2 == NumProposicoes(proposicoes2)
        s5 == obter_detalhes_deputado(s4, t, sel1.id, resp.t1)
        s6 == obter_detalhes_deputado(s5, t, sel2.id, resp.t2)
        detalhes1 == s6.ret[ChaveDetalhes(sel1.id)]
        detalhes2 == s6.ret[ChaveDetalhes(sel2.id)]
        msgs1 == msgs0 \cup AvisoProposicoes(1, proposicoes1)
                       \cup AvisoProposicoes(2, proposicoes2)
                       \cup ErroDetalhes(1, detalhes1) \cup ErroDetalhes(2, detalhes2)
    IN  IF c1.raised # "" \/ c2.raised # ""
        THEN \* the exception leaves the script at line 192 or 193
             [cache |-> s2.cache,
              ui |-> Parou("KeyError", t, msgs0 \cup {Msg(0, "exception", "KeyError")},
                           s2, sel1, sel2)]
        ELSE IF despesas1_raw.tag = "None" \/ despesas2_raw.tag = "None"
        THEN [cache |-> s6.cache,
              ui |-> Parou("erro_despesas", t,
                           msgs1 \cup {Msg(0, "st.error", "Erro ao carregar as despesas.")},
                           s6, sel1, sel2)]
        ELSE LET textual == AnaliseTextual(c1.total, c2.total)
                 el == CASE textual.vencedor = 1 -> "st.success"
                         [] textual.vencedor = 2 -> "st.error"
                         [] OTHER -> "st.info"
                 texto == IF textual.vencedor = 0
                          THEN "Ambos os deputados tiveram o mesmo total"
                          ELSE "gastou a mais"
             IN  [cache |-> s6.cache,
                  ui |-> UI("comparacao", t,
                            msgs1 \cup BlocoA(1, detalhes1) \cup BlocoA(2, detalhes2)
                                  \cup {Msg(1, "st.metric", "Total de Proposicoes"),
                                        Msg(2, "st.metric", "Total de Proposicoes"),
                                        Msg(1, "st.metric", "Total de Despesas"),
                                        Msg(2, "st.metric", "Total de Despesas"),
                                        Msg(0, el, texto)},
                            s6, sel1, sel2, c1.total, c2.total,
                            num_proposicoes1, num_proposicoes2, textual)]

\* Variant: the ids of the two selections are not compared.
Barrado_sem_validacao(sel1, sel2) ==
    IF sel1 = SemDeputado \/ sel2 = SemDeputado THEN "aguardando" ELSE ""

\* Lines 152-159: what stops the run before the period is asked for.
Barrado(sel1, sel2) ==
    IF sel1 = SemDeputado \/ sel2 = SemDeputado THEN "aguardando"
    ELSE IF sel1.id = sel2.id THEN "mesmo_deputado"
    ELSE ""

TextoBarrado(b) ==
    IF b = "aguardando"
    THEN Msg(0, "st.warning", "Aguardando a selecao de dois deputados.")
    ELSE Msg(0, "st.error", "Voce selecionou o mesmo deputado duas vezes.")

\* ---------------------------------------------------------------- actions

\* Seconds one step of the clock advances it, and how many steps it takes.
Passo == 1800
MaxTicks == 2

CacheVazio == [k \in {} |-> [val |-> None, at |-> 0]]

UIInicial ==
    Parou("inicio", 0, {}, Sessao(CacheVazio, {}, CacheVazio, {}), SemDeputado, SemDeputado)

AgregInicial == [despesas |-> None, feito |-> FALSE, res |-> SemDados]

AnaliseInicial == [total1 |-> 0, total2 |-> 0, feito |-> FALSE, res |-> SemAnalise]

Init ==
    /\ now = 0
    /\ cache = CacheVazio
    /\ ui = UIInicial
    /\ agreg = AgregInicial
    /\ analise = AnaliseInicial

\* Wall-clock time passes between two runs.
Tick ==
    /\ now + Passo <= MaxTicks * Passo
    /\ now' = now + Passo
    /\ UNCHANGED <<cache, ui, agreg, analise>>

\* The outcomes to choose from for the request of call k: the request is
\* issued only when the cache holds no fresh entry for k.
Possiveis(c, k, R) == IF Fresco(c, k, now) THEN {"ok"} ELSE R

\* comparar_deputados_ui: one run of the script, from the two name inputs
\* to the page it leaves.  The user's inputs (names out of NomesP, any
\* option of the select boxes, the year, a month out of MesesP) and the
\* outcome of each HTTP request (RB: the searches, RD: the expenses,
\* RP: the propositions, RT: the profiles) are chosen here.
Executar(NomesP, MesesP, RB, RD, RP, RT) ==
    \E nome1 \in NomesP, b1 \in RB :
      LET a1 == Selecao(Sessao(cache, {}, CacheVazio, {}), now, 1, nome1, b1) IN
      \E escolha1 \in Escolhas(a1), nome2 \in NomesP, b2 \in RB :
        LET a2 == Selecao(a1.s, now, 2, nome2, b2) IN
        \E escolha2 \in Escolhas(a2) :
          LET sel1 == Selecionado(a1, escolha1)
              sel2 == Selecionado(a2, escolha2)
              msgs == a1.msgs \cup a2.msgs
              barrado == Barrado(sel1, sel2)
              c == a2.s.cache
          IN  IF barrado # ""
              THEN /\ cache' = c
                   /\ ui' = [Parou(barrado, now, msgs \cup {TextoBarrado(barrado)},
                                   a2.s, sel1, sel2)
                             EXCEPT !.nome1 = nome1, !.nome2 = nome2]
                   /\ UNCHANGED <<now, agreg, analise>>
              ELSE \E ano \in Anos, mes \in MesesP :
                   \E d1 \in Possiveis(c, ChaveDespesas(sel1.id, ano, mes), RD),
                      d2 \in Possiveis(c, ChaveDespesas(sel2.id, ano, mes), RD),
                      p1 \in Possiveis(c, ChaveProposicoes(sel1.id, ano), RP),
                      p2 \in Possiveis(c, ChaveProposicoes(sel2.id, ano), RP),
                      t1 \in Possiveis(c, ChaveDetalhes(sel1.id), RT),
                      t2 \in Possiveis(c, ChaveDetalhes(sel2.id), RT) :
                     LET r == Comparacao(a2.s, now, msgs, sel1, sel2, ano, mes,
                                         [d1 |-> d1, d2 |-> d2, p1 |-> p1,
                                          p2 |-> p2, t1 |-> t1, t2 |-> t2])
                     IN  /\ cache' = r.cache
                         /\ ui' = [r.ui EXCEPT !.nome1 = nome1, !.nome2 = nome2]
                         /\ UNCHANGED <<now, agreg, analise>>

\* Runs in which any request of the comparison itself may fail.
Comparar == Executar({"ana"}, Meses, {"ok"}, Respostas, Respostas, Respostas)

Next == Comparar

Spec == Init /\ [][Next]_vars

\* Runs with any of the names, in which a search may fail.
CompararSelecao == Executar(Nomes, {SemMes}, Respostas, {"ok"}, {"ok"}, {"ok"})

NextSelecao == CompararSelecao

SpecSelecao == Init /\ [][NextSelecao]_vars

\* Runs spread over time, in which an expense request may fail.
CompararCache == Executar({"ana"}, Meses, {"ok"}, Respostas, {"ok"}, {"ok"})

NextCache == Tick \/ CompararCache

SpecCache == Init /\ [][NextCache]_vars

\* ------------------------------------------- the aggregation, on its own

Strings == UNION {[1..n -> Chars] : n \in 0..MaxStrLen}

\* The amounts a record may carry.
Valores == {Ausente, Nulo} \cup {Num(n) : n \in {-3, 0, 8}} \cup {Str(s) : s \in Strings}

Registros == {Reg(a) : a \in Valores}

\* What calcular_total_despesas may be handed: None, or a list of records.
Entradas ==
    {None} \cup {Lista(xs) : xs \in UNION {[1..n -> Registros] : n \in 0..MaxRegistros}}

\* Any of the inputs is about to be handed to calcular_total_despesas.
InitAgregacao ==
    /\ now = 0
    /\ cache = CacheVazio
    /\ ui = UIInicial
    /\ agreg \in {[despesas |-> d, feito |-> FALSE, res |-> SemDados] : d \in Entradas}
    /\ analise = AnaliseInicial

\* The call of calcular_total_despesas.
Calcular ==
    /\ ~agreg.feito
    /\ agreg' = [agreg EXCEPT !.feito = TRUE,
                              !.res = calcular_total_despesas(agreg.despesas)]
    /\ UNCHANGED <<now, cache, ui, analise>>

NextAgregacao == Calcular

SpecAgregacao == InitAgregacao /\ [][NextAgregacao]_vars

\* -------------------------------------- the textual analysis, on its own

Totais == (0 - MaxDivida)..MaxTotal

\* Any two totals are about to be analysed.
InitDerivacao ==
    /\ now = 0
    /\ cache = CacheVazio
    /\ ui = UIInicial
    /\ agreg = AgregInicial
    /\ analise \in {[total1 |-> a, total2 |-> b, feito |-> FALSE, res |-> SemAnalise] :
                       a \in Totais, b \in Totais}

\* Lines 311-330 for the two totals.
Analisar ==
    /\ ~analise.feito
    /\ analise' = [analise EXCEPT !.feito = TRUE,
                                  !.res = AnaliseTextual(analise.total1, analise.total2)]
    /\ UNCHANGED <<now, cache, ui, agreg>>

NextDerivacao == Analisar

SpecDerivacao == InitDerivacao /\ [][NextDerivacao]_vars

\* ----------------------------------------------------------------- claims

Max(a, b) == IF a < b THEN b ELSE a

DespesasChamadas(u) == {k \in DOMAIN u.ret : k.fn = "obter_despesas_deputado"}

ChamadasDaComparacao(u) ==
    {k \in DOMAIN u.ret : k.fn \in {"obter_despesas_deputado",
                                    "obter_proposicoes_deputado",
                                    "obter_detalhes_deputado"}}

ErroDespesas == Msg(0, "st.error", "Erro ao carregar as despesas.")

Metricas(u) == {m \in u.msgs : m[2] = "st.metric"}

Indisponivel(col) == Msg(col, "st.info", "Detalhes do mandato indisponiveis.")

\* The column (1 or 2) of the deputy with this id in the run, 0 if neither.
Coluna(u, id) == IF id = u.sel1 THEN 1 ELSE IF id = u.sel2 THEN 2 ELSE 0

NumProposicoesDe(u, col) == IF col = 1 THEN u.num_proposicoes1 ELSE u.num_proposicoes2

\* C1: once the expenses of the two deputies have been asked for, the run
\* stops with the connectivity error, showing no metric and no analysis, if
\* and only if one of the two calls returned None; a proposition or profile
\* request that failed never stops it: the count is 0, the profile is empty.
C1_HaltsIffExpenseFailed ==
    DespesasChamadas(ui) # {} =>
        /\ (ui.resultado = "erro_despesas"
                <=> \E k \in DespesasChamadas(ui) : ui.ret[k] = None)
        /\ (ErroDespesas \in ui.msgs <=> ui.resultado = "erro_despesas")
        /\ (ui.resultado = "erro_despesas" =>
                Metricas(ui) = {} /\ ui.textual = SemAnalise)
        /\ \A k \in ChamadasDaComparacao(ui) \ DespesasChamadas(ui) :
              (k \in ui.falhas /\ \A d \in DespesasChamadas(ui) : ui.ret[d] # None) =>
                  /\ ui.resultado = "comparacao"
                  /\ k.fn = "obter_proposicoes_deputado" =>
                        NumProposicoesDe(ui, Coluna(ui, k.id)) = 0
                  /\ k.fn = "obter_detalhes_deputado" =>
                        Indisponivel(Coluna(ui, k.id)) \in ui.msgs

\* C2: when the two selected deputies have the same id, the run stops with
\* the validation error: no expense, proposition or profile call is made, no
\* request of theirs is issued, and no difference or percentage is derived.
C2_SameIdHalts ==
    (ui.sel1 # 0 /\ ui.sel1 = ui.sel2) =>
        /\ ui.resultado = "mesmo_deputado"
        /\ TextoBarrado("mesmo_deputado") \in ui.msgs
        /\ ChamadasDaComparacao(ui) = {}
        /\ \A k \in ui.rede : k.fn = "buscar_deputados"
        /\ ui.textual = SemAnalise
        /\ Metricas(ui) = {}

\* Two different search strings led to the same deputy, and the run stopped.
C2_Witness ==
    /\ ui.resultado = "mesmo_deputado"
    /\ ui.sel1 = 2 /\ ui.sel2 = 2
    /\ {ChaveBusca("ana"), ChaveBusca("bia")} \subseteq DOMAIN ui.ret

ErroBusca(col) == Msg(col, "st.error", "Erro na conexao ao buscar deputados")
Nenhum(col) == Msg(col, "st.info", "Nenhum deputado encontrado.")

\* The name typed in a column of the run, "" when its search was not made.
NomeDe(u, col) == IF col = 1 THEN u.nome1 ELSE u.nome2

\* C3: a search whose request failed returns None, not the empty list, and
\* the column that made it shows the error and not the "Nenhum deputado
\* encontrado." that a column shows for a search with no result.
C3_FailureIsNotEmpty ==
    /\ \A k \in ui.falhas : k.fn = "buscar_deputados" => ui.ret[k] = None
    /\ \A col \in {1, 2} :
          NomeDe(ui, col) # "" =>
              LET deputados == ui.ret[ChaveBusca(NomeDe(ui, col))]
              IN  /\ deputados = None =>
                        ErroBusca(col) \in ui.msgs /\ Nenhum(col) \notin ui.msgs
                  /\ deputados = Lista(<<>>) =>
                        ErroBusca(col) \notin ui.msgs /\ Nenhum(col) \in ui.msgs

\* C4: in a run, a call whose entry is younger than TTL returns the stored
\* value, issues no request and leaves the entry as it is; a call whose
\* entry is missing or at least TTL old issues a request, and what it
\* returns is stored with the time of the call.
C4_CacheTTL ==
    [][now' = now =>
        \A k \in DOMAIN ui'.ret :
           IF k \in DOMAIN cache /\ now - cache[k].at < TTL
           THEN /\ ui'.ret[k] = cache[k].val
                /\ k \notin ui'.rede
                /\ cache'[k] = cache[k]
           ELSE /\ k \in ui'.rede
                /\ cache'[k] = [val |-> ui'.ret[k], at |-> now]]_vars

\* An expense call found its entry expired and asked the API again.
C4_Witness ==
    \E k \in DespesasChamadas(ui) :
        /\ k \in ui.vencidas
        /\ k \in ui.rede
        /\ now >= TTL
        /\ cache[k].at = now

\* C5: for totals that are not negative, when the smaller is 0 the
\* percentage is "N/A" or not computed at all, and the message shows none.
C5_PercentNotApplicable ==
    (analise.feito /\ analise.total1 >= 0 /\ analise.total2 >= 0
       /\ Min(analise.total1, analise.total2) = 0) =>
        /\ analise.res.percentual.tipo # "num"
        /\ ~analise.res.msg_pct

C5_Witness ==
    /\ analise.feito
    /\ analise.total1 > 0 /\ analise.total2 = 0
    /\ analise.res.percentual.tipo = "N/A"
    /\ analise.res.vencedor = 1

\* C6: for two different totals with the smaller above 0, diferenca is
\* |total1 - total2|, percentual is diferenca / smaller * 100, whichever of
\* the two is the larger, and the message shows it to one decimal.
C6_DifferenceAndPercent ==
    (analise.feito /\ analise.total1 # analise.total2
       /\ Min(analise.total1, analise.total2) > 0) =>
        LET menor == Min(analise.total1, analise.total2)
            maior == Max(analise.total1, analise.total2)
            r == analise.res
        IN  /\ r.diferenca = maior - menor
            /\ r.percentual.tipo = "num"
            /\ r.percentual.num * menor = r.diferenca * 100 * r.percentual.den
            /\ r.msg_pct
            /\ 2 * Abs(r.pct_decimos * menor - r.diferenca * 1000) <= menor

\* 10 against 8: a difference of 2, 25.0%.
C6_Witness ==
    /\ analise.feito
    /\ analise.total1 = 10 /\ analise.total2 = 8
    /\ analise.res.diferenca = 2
    /\ analise.res.pct_decimos = 250

\* C7: deputy 1 is the higher spender exactly when total1 > total2, deputy 2
\* exactly when total2 > total1, and the tie message is shown exactly when
\* the totals are equal.
C7_StrictVerdict ==
    analise.feito =>
        /\ (analise.res.vencedor = 1 <=> analise.total1 > analise.total2)
        /\ (analise.res.vencedor = 2 <=> analise.total2 > analise.total1)
        /\ (analise.res.vencedor = 0 <=> analise.total1 = analise.total2)

C7_Witness ==
    /\ analise.feito
    /\ analise.total1 = 5 /\ analise.total2 = 5
    /\ analise.res.vencedor = 0

\* The number a string of digits, after an optional "-", writes; none otherwise.
RECURSIVE Lido(_, _)
Lido(s, acc) ==
    IF s = <<>> THEN acc
    ELSE Lido(Tail(s), 10 * acc + (CHOOSE d \in 0..9 : DigitVal(s[1]) = d))

Escreve(s) ==
    LET corpo == IF s # <<>> /\ s[1] = "-" THEN Tail(s) ELSE s
    IN  corpo # <<>> /\ \A i \in 1..Len(corpo) : corpo[i] \in {"0", "1", "2", "3", "4",
                                                               "5", "6", "7", "8", "9"}

\* The number a record's amount stands for, 0 when it stands for none.
Esperado(a) ==
    IF a.k = "num" THEN a.n
    ELSE IF a.k = "str" /\ Escreve(a.s)
         THEN IF a.s[1] = "-" THEN 0 - Lido(Tail(a.s), 0) ELSE Lido(a.s, 0)
         ELSE 0

\* C8: for every list of records that is not empty, calcular_total_despesas
\* raises nothing, and returns one row per record, in order, with the amount
\* as a number (0 when it is missing or does not parse) and their sum.
C8_CoercesEveryRecord ==
    (agreg.feito /\ agreg.despesas.tag = "list" /\ agreg.despesas.dados # <<>>) =>
        LET dados == agreg.despesas.dados
            r == agreg.res
        IN  /\ r.raised = ""
            /\ Len(r.df) = Len(dados)
            /\ \A i \in 1..Len(dados) :
                  /\ r.df[i].orig = dados[i]
                  /\ r.df[i].valorDocumento = Esperado(dados[i].valorDocumento)
            /\ r.total = SeqSum([i \in 1..Len(dados) |-> Esperado(dados[i].valorDocumento)])

\* C9: for the empty list and for None, calcular_total_despesas raises
\* nothing and returns the total 0 and an empty table.
C9_EmptyOrFailed ==
    (agreg.feito /\ (agreg.despesas = None \/ agreg.despesas.dados = <<>>)) =>
        /\ agreg.res.raised = ""
        /\ agreg.res.total = 0
        /\ agreg.res.df = <<>>

C9_Witness ==
    /\ agreg.feito
    /\ agreg.despesas = Lista(<<>>)
    /\ agreg.res.total = 0

====
